---- MODULE Spec2Model ----
(***************************************************************************)
(* Model of glide-lib: the Application Controller (glide.go), the Tray     *)
(* Menu Manager (tray manager file, src/unnamed/part_000) and the          *)
(* Window-Style Controller (glide.go).                                     *)
(*                                                                         *)
(* The specifications share the variables:                                 *)
(*   Spec      - lifecycle (New/Run/Terminate/Exit) and the tray manager   *)
(*   FairSpec  - Spec with the goroutines' steps weakly fair               *)
(*   ClickSpec - the tray manager with native clicks and listeners         *)
(*   WinSpec   - window-style operations and the deferred-dispatch queue   *)
(***************************************************************************)
EXTENDS Integers, Sequences, FiniteSets, TLC

\* ------------------------------------------------------------------ bounds
MaxAdds == 2
MaxTerminate == 2
MaxClicks == 2
MaxQueue == 2

\* --------------------------------------------------------------- constants
Nil == "nil"
NoTray == <<>>      \* App.tray is nil; otherwise tray = <<the TrayConfig>>
Free == <<"free", 0>>     \* itemMutex is unlocked; otherwise the caller holding it
NoHandler == "nil"
NoPanic == "none"
CloseOfClosedQuit == "close of closed channel: quit"
CloseOfClosedInit == "close of closed channel: initializedCh"
CloseOfNil == "close of nil channel"
NilDerefRun == "nil pointer dereference: Run"
NilDerefWindow == "nil pointer dereference: window operation"

VARIABLES
  \* App (glide.go:21-27) and the goroutine positions of Run
  webview,        \* Nil or "live": App.webview
  wvTerminated,   \* the rendering surface was asked to terminate
  quit,           \* Nil, "open" or "closed": App.quit
  tray,           \* NoTray or <<TrayConfig>>: App.tray and its config
  wg,             \* App.wg counter
  mainPc,         \* position of the context executing App.Run
  panicked,       \* NoPanic or the runtime panic that ended the process
  termCalls,      \* number of user Terminate/Exit calls made so far
  \* trayManager (part_000:57-66)
  initialized, initializedCh, pendingItems, menuItems, itemMutex,
  \* the tray library at its boundary
  trayLoop,       \* "notStarted", "running", "exiting", "exited": systray.Run
  trayTitle, trayTooltip, nativeMenu,
  clickedCh,      \* native items whose ClickedCh carries a notification
  listeners,      \* the goroutines started by addMenuItem
  \* goroutine positions
  trayRunPc,      \* goroutine of Run executing trayManager.run
  readyPc,        \* context executing trayManager.onReady
  buildIdx,       \* loop index of buildMenu
  amPc, amArg,    \* per caller: position inside trayManager.AddMenuItem
  adds,           \* number of user AddMenuItem calls made so far
  \* history
  submitOrder,    \* items in the order they were appended to pendingItems
  notifications,  \* native click notifications, in order of delivery
  handlerCalls,   \* handler invocations [ch, handler], in order
  liveOrder,      \* items realized by AddMenuItem in the Live state, in order
  onReadyCalls, onExitCalls, drains,
  \* window (Window-Style Controller)
  style,          \* the window's GWL_STYLE bits
  exStyle,        \* the window's GWL_EXSTYLE bits
  alpha,          \* the layered-window alpha
  pos, showCmd, navUrl,
  dispatchq,      \* tasks handed to webview.Dispatch, not yet run
  nativeThreads,  \* the threads that have issued a native window call
  styleWriters,   \* the threads that have written GWL_STYLE
  noops,          \* the calls that found no rendering surface and did nothing
  \* history of the window operations
  rt, rtBase,     \* RemoveBorders/RestoreBorders round trip and its start style
  trRun,          \* SetTransparency tasks run since the last other exStyle write (0, 1, 2 = more)
  trBase,         \* exStyle before the first of them
  trLast          \* alpha of the last SetTransparency call

lifeVars == <<webview, wvTerminated, quit, tray, wg, mainPc, panicked, termCalls>>
trayVars == <<initialized, initializedCh, pendingItems, menuItems, itemMutex,
              trayLoop, trayTitle, trayTooltip, nativeMenu, clickedCh, listeners,
              trayRunPc, readyPc, buildIdx, amPc, amArg, adds,
              submitOrder, liveOrder, notifications, handlerCalls, onReadyCalls, onExitCalls, drains>>
winVars == <<style, exStyle, alpha, pos, showCmd, navUrl, dispatchq, nativeThreads,
             styleWriters, noops, rt, rtBase, trRun, trBase, trLast>>
vars == <<lifeVars, trayVars, winVars>>

\* ------------------------------------------------------------ menu items
\* MenuItem values (part_000:25-32).  Handler is the identity of the
\* callback: the title of the item that owns it, or NoHandler.
MkItem(title, disabled, checked, handler, items) ==
  [Title |-> title, Tooltip |-> title, Disabled |-> disabled, Checked |-> checked,
   Handler |-> handler, Items |-> items]

ItemOpen == MkItem("Open", FALSE, FALSE, "Open", <<>>)
ItemTheme == MkItem("Theme", FALSE, TRUE, "Theme", <<>>)
ItemLang == MkItem("Lang", TRUE, FALSE, NoHandler, <<>>)
ItemSettings == MkItem("Settings", FALSE, FALSE, "Settings", <<ItemTheme, ItemLang>>)
ItemQuick == MkItem("Quick", FALSE, FALSE, "Quick", <<>>)

\* TrayConfig values (part_000:16-23)
MkTray(title, items, onReady, onExit) ==
  [Title |-> title, Tooltip |-> title, MenuItems |-> items,
   OnReady |-> onReady, OnExit |-> onExit]

TrayConfigs ==
  { MkTray("", <<>>, FALSE, FALSE),
    MkTray("App", <<>>, TRUE, TRUE),
    MkTray("", <<ItemOpen>>, FALSE, TRUE),
    MkTray("App", <<ItemOpen, ItemSettings>>, TRUE, TRUE) }

SubmittedItems == {ItemQuick, ItemSettings}

Systray == <<"systray", 0>>
Submitters == {<<"user", 1>>, <<"user", 2>>}
Callers == Submitters \cup {Systray}

Alive == panicked = NoPanic

\* ------------------------------------------------- the tray library's menu
\* What systray.AddMenuItem / AddSubMenuItem, Disable and Check leave in the
\* native menu for one item (part_000:133-142, 153-159).
NativeItem(item) ==
  [Title |-> item.Title, Tooltip |-> item.Tooltip,
   Disabled |-> item.Disabled, Checked |-> item.Checked]

\* The listener goroutines addMenuItem starts for the item realized at
\* position i: one on the item's ClickedCh (part_000:144-150) and one per
\* nested item on that sub-item's ClickedCh, each with its own item passed
\* by value (part_000:160-166).
ItemListeners_Aliased(i, item) ==
  {[ch |-> <<i>>, handler |-> item.Handler]} \cup
  {[ch |-> <<i, j>>, handler |-> item.Items[Len(item.Items)].Handler] :
     j \in 1..Len(item.Items)}

ItemListeners(i, item) ==
  {[ch |-> <<i>>, handler |-> item.Handler]} \cup
  {[ch |-> <<i, j>>, handler |-> item.Items[j].Handler] : j \in 1..Len(item.Items)}

\* trayManager.addMenuItem (part_000:132-168) on st = [nativeMenu, menuItems,
\* listeners]: one level of nested items is realized.
addMenuItem(st, item) ==
  LET i == Len(st.nativeMenu) + 1
      m == [Title |-> item.Title, Tooltip |-> item.Tooltip,
            Disabled |-> item.Disabled, Checked |-> item.Checked,
            Sub |-> [j \in 1..Len(item.Items) |-> NativeItem(item.Items[j])]]
  IN [nativeMenu |-> Append(st.nativeMenu, m),
      menuItems |-> Append(st.menuItems, <<i>>),
      listeners |-> st.listeners \cup ItemListeners(i, item)]

\* the loop of onReady over pendingItems (part_000:101-103)
RECURSIVE addAll(_, _)
addAll(st, items) ==
  IF items = <<>> THEN st ELSE addAll(addMenuItem(st, Head(items)), Tail(items))

MenuState == [nativeMenu |-> nativeMenu, menuItems |-> menuItems, listeners |-> listeners]

\* every native item, as the path of its ClickedCh
Paths(menu) ==
  {<<i>> : i \in 1..Len(menu)} \cup
  UNION {{<<i, j>> : j \in 1..Len(menu[i].Sub)} : i \in 1..Len(menu)}

NativeAt(menu, p) == IF Len(p) = 1 THEN menu[p[1]] ELSE menu[p[1]].Sub[p[2]]

menuV == <<nativeMenu, menuItems, listeners>>
clickV == <<clickedCh, notifications, handlerCalls>>
histV == <<submitOrder, liveOrder, onReadyCalls, onExitCalls, drains>>
mgrV == <<initialized, initializedCh, pendingItems, itemMutex>>
callV == <<amPc, amArg, adds>>

\* ------------------------------------------------------------- lifecycle
\* App.Terminate (glide.go:422-427): close(a.quit), then terminate the
\* rendering surface.  close panics on a closed or nil channel.
TerminateBody ==
  IF quit = "closed"
    THEN panicked' = CloseOfClosedQuit /\ UNCHANGED <<quit, wvTerminated>>
  ELSE IF quit = Nil
    THEN panicked' = CloseOfNil /\ UNCHANGED <<quit, wvTerminated>>
  ELSE /\ quit' = "closed"
       /\ wvTerminated' = (IF webview # Nil THEN TRUE ELSE wvTerminated)
       /\ UNCHANGED panicked

\* a user call of App.Terminate (glide.go:422-427)
Terminate ==
  /\ Alive /\ termCalls < MaxTerminate
  /\ termCalls' = termCalls + 1
  /\ TerminateBody
  /\ UNCHANGED <<webview, tray, wg, mainPc, trayVars, winVars>>

\* a user call of App.Exit (glide.go:369-371), which calls Terminate
Exit ==
  /\ Alive /\ termCalls < MaxTerminate
  /\ termCalls' = termCalls + 1
  /\ TerminateBody
  /\ UNCHANGED <<webview, tray, wg, mainPc, trayVars, winVars>>

\* App.Run up to the call of webview.Run (glide.go:406-418): with a tray,
\* wg.Add(1) and a goroutine executing trayManager.run; a.webview.Run() on
\* a nil interface panics.
Run ==
  /\ Alive /\ mainPc = "idle"
  /\ IF tray # NoTray
       THEN wg' = wg + 1 /\ trayRunPc' = "start"
       ELSE UNCHANGED <<wg, trayRunPc>>
  /\ IF webview = Nil
       THEN panicked' = NilDerefRun /\ UNCHANGED mainPc
       ELSE mainPc' = "webviewRun" /\ UNCHANGED panicked
  /\ UNCHANGED <<webview, wvTerminated, quit, tray, termCalls, winVars>>
  /\ UNCHANGED <<mgrV, menuV, clickV, histV, callV,
                 trayLoop, trayTitle, trayTooltip, readyPc, buildIdx>>

\* webview.Run returns once the surface is terminated (glide.go:418)
WebviewRunReturns ==
  /\ Alive /\ mainPc = "webviewRun" /\ wvTerminated
  /\ mainPc' = "wgWait"
  /\ UNCHANGED <<webview, wvTerminated, quit, tray, wg, panicked, termCalls>>
  /\ UNCHANGED <<trayVars, winVars>>

\* a.wg.Wait() returns and so does Run (glide.go:419-420)
RunReturns ==
  /\ Alive /\ mainPc = "wgWait" /\ wg = 0
  /\ mainPc' = "returned"
  /\ UNCHANGED <<webview, wvTerminated, quit, tray, wg, panicked, termCalls>>
  /\ UNCHANGED <<trayVars, winVars>>

\* ---------------------------------------------------- trayManager.run
\* trayManager.run, first line (part_000:81): go systray.Run(onReady, onExit)
TrayRun ==
  /\ Alive /\ trayRunPc = "start"
  /\ trayLoop' = "running"
  /\ trayRunPc' = "waitInit"
  /\ UNCHANGED <<lifeVars, winVars, mgrV, menuV, clickV, histV, callV,
                 trayTitle, trayTooltip, readyPc, buildIdx>>

\* trayManager.run, second line (part_000:82): <-t.initializedCh, then the
\* goroutine of Run ends with wg.Done (glide.go:413)
TrayRunReturns ==
  /\ Alive /\ trayRunPc = "waitInit" /\ initializedCh = "closed"
  /\ trayRunPc' = "done"
  /\ wg' = wg - 1
  /\ UNCHANGED <<webview, wvTerminated, quit, tray, mainPc, panicked, termCalls, winVars>>
  /\ UNCHANGED <<mgrV, menuV, clickV, histV, callV,
                 trayLoop, trayTitle, trayTooltip, readyPc, buildIdx>>

\* ------------------------------------------------- trayManager.AddMenuItem
\* App.AddMenuItem (glide.go:451-455): delegates to the tray manager when
\* there is one; the call then waits for itemMutex (part_000:122).
AddMenuItem(c, item) ==
  /\ Alive /\ c \in Submitters /\ amPc[c] = "idle" /\ adds < MaxAdds
  /\ adds' = adds + 1
  /\ IF tray # NoTray
       THEN /\ amPc' = [amPc EXCEPT ![c] = "lock"]
            /\ amArg' = [amArg EXCEPT ![c] = item]
       ELSE UNCHANGED <<amPc, amArg>>
  /\ UNCHANGED <<lifeVars, winVars, mgrV, menuV, clickV, histV,
                 trayLoop, trayTitle, trayTooltip, trayRunPc, readyPc, buildIdx>>

\* an AddMenuItem that enters its critical section without waiting
AddMenuItemLock_NoWait(c) ==
  /\ Alive /\ amPc[c] = "lock"
  /\ itemMutex' = c
  /\ amPc' = [amPc EXCEPT ![c] = "locked"]
  /\ UNCHANGED <<lifeVars, winVars, initialized, initializedCh, pendingItems,
                 menuV, clickV, histV, amArg, adds,
                 trayLoop, trayTitle, trayTooltip, trayRunPc, readyPc, buildIdx>>

\* t.itemMutex.Lock() in AddMenuItem (part_000:122).  sync.Mutex is not
\* reentrant: the caller waits while anyone, itself included, holds it.
AddMenuItemLock(c) ==
  /\ Alive /\ amPc[c] = "lock" /\ itemMutex = Free
  /\ itemMutex' = c
  /\ amPc' = [amPc EXCEPT ![c] = "locked"]
  /\ UNCHANGED <<lifeVars, winVars, initialized, initializedCh, pendingItems,
                 menuV, clickV, histV, amArg, adds,
                 trayLoop, trayTitle, trayTooltip, trayRunPc, readyPc, buildIdx>>

\* the branch of AddMenuItem (part_000:125-129) on the pending queue pend
\* and the menu state st
AddMenuItemResult_Eager(init, pend, st, item) ==
  [pending |-> pend, menu |-> addMenuItem(st, item)]

\* an AddMenuItem that buffers the item whatever the state
AddMenuItemResult_Queued(init, pend, st, item) ==
  [pending |-> Append(pend, item), menu |-> st]

AddMenuItemResult(init, pend, st, item) ==
  IF init
    THEN [pending |-> pend, menu |-> addMenuItem(st, item)]
    ELSE [pending |-> Append(pend, item), menu |-> st]

\* AddMenuItem under the lock, and its deferred Unlock (part_000:123-130);
\* the call made by buildMenu then continues that loop (part_000:116-118).
AddMenuItemBody(c) ==
  /\ Alive /\ amPc[c] = "locked"
  /\ LET r == AddMenuItemResult(initialized, pendingItems, MenuState, amArg[c])
     IN /\ pendingItems' = r.pending
        /\ nativeMenu' = r.menu.nativeMenu
        /\ menuItems' = r.menu.menuItems
        /\ listeners' = r.menu.listeners
  /\ IF initialized
       THEN liveOrder' = Append(liveOrder, amArg[c]) /\ UNCHANGED submitOrder
       ELSE submitOrder' = Append(submitOrder, amArg[c]) /\ UNCHANGED liveOrder
  /\ itemMutex' = Free
  /\ amPc' = [amPc EXCEPT ![c] = "idle"]
  /\ IF c = Systray /\ readyPc = "inAddMenuItem"
       THEN buildIdx' = buildIdx + 1 /\ readyPc' = "buildMenu"
       ELSE IF c = Systray /\ readyPc = "inCallback"
              THEN readyPc' = "unlock" /\ UNCHANGED buildIdx
              ELSE UNCHANGED <<buildIdx, readyPc>>
  /\ UNCHANGED <<lifeVars, winVars, initialized, initializedCh, clickV,
                 onReadyCalls, onExitCalls, drains, amArg, adds,
                 trayLoop, trayTitle, trayTooltip, trayRunPc>>

\* ---------------------------------------------------- trayManager.onReady
\* the tray library delivers its readiness notification: systray.Run calls
\* the onReady handler it was given (part_000:81), once
OnReadyNotify ==
  /\ Alive /\ trayLoop = "running" /\ readyPc = "idle"
  /\ readyPc' = "lock"
  /\ UNCHANGED <<lifeVars, winVars, mgrV, menuV, clickV, histV, callV,
                 trayLoop, trayTitle, trayTooltip, trayRunPc, buildIdx>>

\* onReady: Lock, SetTitle/SetTooltip when non-empty (part_000:86-95)
OnReadyLock ==
  /\ Alive /\ readyPc = "lock" /\ itemMutex = Free
  /\ itemMutex' = Systray
  /\ trayTitle' = (IF tray[1].Title # "" THEN tray[1].Title ELSE trayTitle)
  /\ trayTooltip' = (IF tray[1].Tooltip # "" THEN tray[1].Tooltip ELSE trayTooltip)
  /\ buildIdx' = 1
  /\ readyPc' = "buildMenu"
  /\ UNCHANGED <<lifeVars, winVars, initialized, initializedCh, pendingItems,
                 menuV, clickV, histV, callV, trayLoop, trayRunPc>>

\* buildMenu (part_000:115-119): for each config item call t.AddMenuItem,
\* the locking entry point; after the last one onReady goes on
BuildMenu ==
  /\ Alive /\ readyPc = "buildMenu"
  /\ IF buildIdx <= Len(tray[1].MenuItems)
       THEN /\ amPc' = [amPc EXCEPT ![Systray] = "lock"]
            /\ amArg' = [amArg EXCEPT ![Systray] = tray[1].MenuItems[buildIdx]]
            /\ readyPc' = "inAddMenuItem"
       ELSE /\ readyPc' = "drain"
            /\ UNCHANGED <<amPc, amArg>>
  /\ UNCHANGED <<lifeVars, winVars, mgrV, menuV, clickV, histV, adds,
                 trayLoop, trayTitle, trayTooltip, trayRunPc, buildIdx>>

\* onReady's loop over pendingItems and t.pendingItems = nil (part_000:101-104)
DrainResult_KeepQueue(pend, st) == [pending |-> pend, menu |-> addAll(st, pend)]

DrainResult(pend, st) == [pending |-> <<>>, menu |-> addAll(st, pend)]

\* onReady after buildMenu (part_000:100-108): realize the pending items,
\* clear the queue, set initialized, close(initializedCh)
OnReadyDrain ==
  /\ Alive /\ readyPc = "drain"
  /\ LET r == DrainResult(pendingItems, MenuState)
     IN /\ pendingItems' = r.pending
        /\ nativeMenu' = r.menu.nativeMenu
        /\ menuItems' = r.menu.menuItems
        /\ listeners' = r.menu.listeners
  /\ drains' = drains + 1
  /\ initialized' = TRUE
  /\ IF initializedCh = "closed"
       THEN panicked' = CloseOfClosedInit /\ UNCHANGED initializedCh
       ELSE initializedCh' = "closed" /\ UNCHANGED panicked
  /\ readyPc' = (IF tray[1].OnReady THEN "callOnReady" ELSE "unlock")
  /\ UNCHANGED <<webview, wvTerminated, quit, tray, wg, mainPc, termCalls, winVars,
                 itemMutex, clickV, submitOrder, liveOrder, onReadyCalls, onExitCalls,
                 callV, trayLoop, trayTitle, trayTooltip, trayRunPc, buildIdx>>

\* the user's OnReady callback (part_000:110-112), itemMutex still held by
\* the deferred Unlock of part_000:87.  The callback is user code: it either
\* just returns, or calls App.AddMenuItem (glide.go:451-455) on this goroutine
OnReadyCallback ==
  /\ Alive /\ readyPc = "callOnReady"
  /\ onReadyCalls' = onReadyCalls + 1
  /\ \/ readyPc' = "unlock" /\ UNCHANGED callV
     \/ /\ readyPc' = "inCallback"
        /\ amPc' = [amPc EXCEPT ![Systray] = "lock"]
        /\ amArg' = [amArg EXCEPT ![Systray] = ItemQuick]
        /\ UNCHANGED adds
  /\ UNCHANGED <<lifeVars, winVars, mgrV, menuV, clickV, submitOrder, liveOrder,
                 onExitCalls, drains,
                 trayLoop, trayTitle, trayTooltip, trayRunPc, buildIdx>>

\* an onReady that signals readiness a second time on its way out
OnReadyUnlock_Signals ==
  /\ Alive /\ readyPc = "unlock"
  /\ itemMutex' = Free
  /\ readyPc' = "done"
  /\ panicked' = (IF initializedCh = "closed" THEN CloseOfClosedInit ELSE panicked)
  /\ UNCHANGED <<webview, wvTerminated, quit, tray, wg, mainPc, termCalls>>
  /\ UNCHANGED <<winVars, initialized, initializedCh, pendingItems,
                 menuV, clickV, histV, callV,
                 trayLoop, trayTitle, trayTooltip, trayRunPc, buildIdx>>

\* the deferred t.itemMutex.Unlock() of onReady (part_000:87)
OnReadyUnlock ==
  /\ Alive /\ readyPc = "unlock"
  /\ itemMutex' = Free
  /\ readyPc' = "done"
  /\ UNCHANGED <<lifeVars, winVars, initialized, initializedCh, pendingItems,
                 menuV, clickV, histV, callV,
                 trayLoop, trayTitle, trayTooltip, trayRunPc, buildIdx>>

\* trayManager.onExit (part_000:170-175), called by the tray library when
\* its event loop is told to quit: first the user's OnExit (part_000:171-173)
OnExit ==
  /\ Alive /\ trayLoop = "running"
  /\ onExitCalls' = (IF tray[1].OnExit THEN onExitCalls + 1 ELSE onExitCalls)
  /\ trayLoop' = "exiting"
  /\ UNCHANGED <<lifeVars, winVars>>
  /\ UNCHANGED <<mgrV, menuV, clickV, submitOrder, liveOrder, onReadyCalls, drains,
                 callV, trayTitle, trayTooltip, trayRunPc, readyPc, buildIdx>>

\* onExit without its call of app.Terminate()
OnExitTerminate_Skipped ==
  /\ Alive /\ trayLoop = "exiting"
  /\ trayLoop' = "exited"
  /\ UNCHANGED <<lifeVars, winVars>>
  /\ UNCHANGED <<mgrV, menuV, clickV, histV,
                 callV, trayTitle, trayTooltip, trayRunPc, readyPc, buildIdx>>

\* ... then t.app.Terminate() (part_000:174), and the tray loop is over
OnExitTerminate ==
  /\ Alive /\ trayLoop = "exiting"
  /\ TerminateBody
  /\ trayLoop' = "exited"
  /\ UNCHANGED <<webview, tray, wg, mainPc, termCalls, winVars>>
  /\ UNCHANGED <<mgrV, menuV, clickV, histV,
                 callV, trayTitle, trayTooltip, trayRunPc, readyPc, buildIdx>>

\* ------------------------------------------------------- click listeners
\* the tray library notifies a click on native item p through its ClickedCh
\* (the channel the listeners of part_000:145 and :161 range over)
NativeClick(p) ==
  /\ Alive /\ trayLoop = "running"
  /\ p \in Paths(nativeMenu) /\ p \notin clickedCh
  /\ Len(notifications) < MaxClicks
  /\ clickedCh' = clickedCh \cup {p}
  /\ notifications' = Append(notifications, p)
  /\ UNCHANGED <<lifeVars, winVars, mgrV, menuV, handlerCalls, histV, callV,
                 trayLoop, trayTitle, trayTooltip, trayRunPc, readyPc, buildIdx>>

\* one iteration of a listener goroutine (part_000:144-150, 160-166):
\* receive from its ClickedCh, call its item's Handler when non-nil
ListenerReceive(l) ==
  /\ Alive /\ l \in listeners /\ l.ch \in clickedCh
  /\ clickedCh' = clickedCh \ {l.ch}
  /\ handlerCalls' = (IF l.handler # NoHandler
                        THEN Append(handlerCalls, [ch |-> l.ch, handler |-> l.handler])
                        ELSE handlerCalls)
  /\ UNCHANGED <<lifeVars, winVars, mgrV, menuV, notifications, histV, callV,
                 trayLoop, trayTitle, trayTooltip, trayRunPc, readyPc, buildIdx>>

\* ------------------------------------------------ Window-Style Controller
\* window constants (glide.go:42-84)
SW_SHOW == 5
SW_MINIMIZE == 6
SW_MAXIMIZE == 3
SW_RESTORE == 9
WS_CAPTION == \H00C00000
WS_THICKFRAME == \H00040000
WS_MINIMIZEBOX == \H00020000
WS_MAXIMIZEBOX == \H00010000
WS_SYSMENU == \H00080000
WS_BORDER == \H00800000
WS_EX_LAYERED == \H00080000
WS_EX_TRANSPARENT == \H00000020
WS_EX_COMPOSITED == \H02000000
WS_EX_APPWINDOW == \H00040000

\* Go's &, | and &^ on the style words
RECURSIVE BitAnd(_, _)
BitAnd(a, b) ==
  IF a = 0 \/ b = 0 THEN 0
  ELSE (a % 2) * (b % 2) + 2 * BitAnd(a \div 2, b \div 2)

BitOr(a, b) == a + b - BitAnd(a, b)
AndNot(a, b) == a - BitAnd(a, b)

\* WS_CAPTION|WS_THICKFRAME|WS_MINIMIZEBOX|WS_MAXIMIZEBOX|WS_SYSMENU|WS_BORDER
\* (glide.go:278 and :311)
BorderMask ==
  BitOr(WS_CAPTION, BitOr(WS_THICKFRAME, BitOr(WS_MINIMIZEBOX,
    BitOr(WS_MAXIMIZEBOX, BitOr(WS_SYSMENU, WS_BORDER)))))

\* newStyle of RemoveBorders (glide.go:278)
RemoveBordersStyle(s) == AndNot(s, BorderMask)

RestoreBordersStyle_Unchanged(s) == s

\* newStyle of RestoreBorders (glide.go:311)
RestoreBordersStyle(s) == BitOr(s, BorderMask)

SetTransparencyExStyle_Overwrite(ex) == WS_EX_LAYERED

\* newExStyle of SetTransparency (glide.go:128)
SetTransparencyExStyle(ex) == BitOr(ex, WS_EX_LAYERED)

\* newExStyle of SetBackgroundTransparent (glide.go:162): the style read at
\* :156 is not used
BackgroundTransparentExStyle(ex) ==
  BitOr(WS_EX_LAYERED, BitOr(WS_EX_TRANSPARENT, WS_EX_COMPOSITED))

\* inputs of the window operations
Alphas == {0, 255}
Positions == {<<100, 50>>}
Urls == {"app://index"}

\* before any window operation
NothingDoneYet ==
  /\ alpha = 255 /\ pos = <<0, 0>> /\ showCmd = SW_SHOW /\ navUrl = ""
  /\ dispatchq = <<>> /\ nativeThreads = {} /\ styleWriters = {} /\ noops = {}
  /\ rt = "none" /\ rtBase = 0 /\ trRun = 0 /\ trBase = 0 /\ trLast = 255

appV == <<webview, wvTerminated, quit, tray, wg, mainPc, termCalls>>
rtV == <<rt, rtBase>>
trV == <<trRun, trBase, trLast>>

\* a call that finds a.webview == nil returns at once (glide.go:113-116,
\* 148-150, 242-245, 265-267, 298-300, 341, 349, 357, 364, 430-433)
NoSurface(op) ==
  /\ noops' = noops \cup {op}
  /\ UNCHANGED <<lifeVars, trayVars, style, exStyle, alpha, pos, showCmd, navUrl,
                 dispatchq, nativeThreads, styleWriters, rtV, trV>>

\* a.webview.Dispatch(task) and nothing else
Dispatch(task) ==
  /\ Len(dispatchq) < MaxQueue
  /\ dispatchq' = Append(dispatchq, task)
  /\ UNCHANGED <<lifeVars, trayVars, style, exStyle, alpha, pos, showCmd, navUrl,
                 nativeThreads, styleWriters, noops, rtV>>

\* App.SetTransparency (glide.go:112-143): the whole read-modify-write is
\* dispatched
SetTransparency(a) ==
  /\ Alive
  /\ IF webview = Nil THEN NoSurface("SetTransparency")
     ELSE /\ Dispatch([op |-> "SetTransparency", alpha |-> a, x |-> 0, y |-> 0, url |-> ""])
          /\ trLast' = a
          /\ UNCHANGED <<trRun, trBase>>

\* App.SetBackgroundTransparent (glide.go:147-197)
SetBackgroundTransparent ==
  /\ Alive
  /\ IF webview = Nil THEN NoSurface("SetBackgroundTransparent")
     ELSE /\ Dispatch([op |-> "SetBackgroundTransparent", alpha |-> 0, x |-> 0, y |-> 0, url |-> ""])
          /\ UNCHANGED trV

\* App.SetPosition (glide.go:241-262)
SetPosition(x, y) ==
  /\ Alive
  /\ IF webview = Nil THEN NoSurface("SetPosition")
     ELSE /\ Dispatch([op |-> "SetPosition", alpha |-> 0, x |-> x, y |-> y, url |-> ""])
          /\ UNCHANGED trV

\* App.Navigate (glide.go:429-437)
Navigate(url) ==
  /\ Alive
  /\ IF webview = Nil THEN NoSurface("Navigate")
     ELSE /\ Dispatch([op |-> "Navigate", alpha |-> 0, x |-> 0, y |-> 0, url |-> url])
          /\ UNCHANGED trV

\* App.RemoveBorders (glide.go:264-294): the style is read and written on
\* the calling thread; only the redraw is dispatched
RemoveBorders ==
  /\ Alive
  /\ IF webview = Nil THEN NoSurface("RemoveBorders")
     ELSE /\ Len(dispatchq) < MaxQueue
          /\ style' = RemoveBordersStyle(style)
          /\ nativeThreads' = nativeThreads \cup {"caller"}
          /\ styleWriters' = styleWriters \cup {"caller"}
          /\ dispatchq' = Append(dispatchq, [op |-> "Redraw", alpha |-> 0, x |-> 0, y |-> 0, url |-> ""])
          /\ rt' = "removed" /\ rtBase' = style
          /\ UNCHANGED <<lifeVars, trayVars, exStyle, alpha, pos, showCmd, navUrl, noops, trV>>

\* App.RestoreBorders (glide.go:297-327): as RemoveBorders, with | for &^
RestoreBorders ==
  /\ Alive
  /\ IF webview = Nil THEN NoSurface("RestoreBorders")
     ELSE /\ Len(dispatchq) < MaxQueue
          /\ style' = RestoreBordersStyle(style)
          /\ nativeThreads' = nativeThreads \cup {"caller"}
          /\ styleWriters' = styleWriters \cup {"caller"}
          /\ dispatchq' = Append(dispatchq, [op |-> "Redraw", alpha |-> 0, x |-> 0, y |-> 0, url |-> ""])
          /\ rt' = (IF rt = "removed" THEN "restored" ELSE "none")
          /\ UNCHANGED <<lifeVars, trayVars, exStyle, alpha, pos, showCmd, navUrl, noops,
                         rtBase, trV>>

\* showWindow / showWindowAsync called on the calling thread with cmd
ShowInline(cmd) ==
  /\ showCmd' = cmd
  /\ nativeThreads' = nativeThreads \cup {"caller"}
  /\ UNCHANGED <<lifeVars, trayVars, style, exStyle, alpha, pos, navUrl, dispatchq,
                 styleWriters, noops, rtV, trV>>

Maximize_NoGuard ==
  /\ Alive
  /\ IF webview = Nil
       THEN /\ panicked' = NilDerefWindow
            /\ UNCHANGED <<appV, trayVars, winVars>>
       ELSE ShowInline(SW_MAXIMIZE)

\* App.Maximize (glide.go:340-345)
Maximize ==
  /\ Alive
  /\ IF webview = Nil THEN NoSurface("Maximize") ELSE ShowInline(SW_MAXIMIZE)

\* App.Minimize (glide.go:348-353)
Minimize ==
  /\ Alive
  /\ IF webview = Nil THEN NoSurface("Minimize") ELSE ShowInline(SW_MINIMIZE)

\* App.Restore (glide.go:356-361)
Restore ==
  /\ Alive
  /\ IF webview = Nil THEN NoSurface("Restore") ELSE ShowInline(SW_RESTORE)

\* App.ShowWindow (glide.go:363-367) through myShowWindow (glide.go:334-337)
ShowWindow ==
  /\ Alive
  /\ IF webview = Nil THEN NoSurface("ShowWindow") ELSE ShowInline(SW_SHOW)

\* the run-loop of the rendering surface takes the oldest dispatched task
\* and runs it on the window-owning thread (the closures of glide.go:120-142,
\* 154-194, 248-261, 288-293, 321-326, 434-436)
RunDispatched ==
  /\ Alive /\ mainPc = "webviewRun" /\ dispatchq # <<>>
  /\ LET t == Head(dispatchq) IN
     /\ dispatchq' = Tail(dispatchq)
     /\ nativeThreads' = (IF t.op = "Navigate" THEN nativeThreads
                          ELSE nativeThreads \cup {"owner"})
     /\ exStyle' = (CASE t.op = "SetTransparency" -> SetTransparencyExStyle(exStyle)
                      [] t.op = "SetBackgroundTransparent" -> BackgroundTransparentExStyle(exStyle)
                      [] OTHER -> exStyle)
     /\ alpha' = (CASE t.op = "SetTransparency" -> t.alpha
                    [] t.op = "SetBackgroundTransparent" -> 0
                    [] OTHER -> alpha)
     /\ showCmd' = (IF t.op \in {"SetBackgroundTransparent", "Redraw"} THEN SW_SHOW ELSE showCmd)
     /\ pos' = (IF t.op = "SetPosition" THEN <<t.x, t.y>> ELSE pos)
     /\ navUrl' = (IF t.op = "Navigate" THEN t.url ELSE navUrl)
     /\ trRun' = (CASE t.op = "SetTransparency" -> (IF trRun < 2 THEN trRun + 1 ELSE 2)
                    [] t.op = "SetBackgroundTransparent" -> 0
                    [] OTHER -> trRun)
     /\ trBase' = (IF t.op = "SetTransparency" /\ trRun = 0 THEN exStyle ELSE trBase)
  /\ UNCHANGED <<lifeVars, trayVars, style, styleWriters, noops, rtV, trLast>>

\* ---------------------------------------------------------- construction
\* the window New leaves behind (glide.go:387-404): an overlapped, visible
\* top-level window, opaque, with nothing dispatched yet
WindowAfterNew ==
  /\ style = 282001408 /\ exStyle = 256
  /\ NothingDoneYet

\* newTrayManager (part_000:68-78), and the tray library not yet started
TrayManagerAfterNew ==
  /\ initialized = FALSE /\ initializedCh = "open"
  /\ pendingItems = <<>> /\ menuItems = <<>> /\ itemMutex = Free
  /\ trayLoop = "notStarted" /\ trayTitle = "" /\ trayTooltip = ""
  /\ nativeMenu = <<>> /\ clickedCh = {} /\ listeners = {}
  /\ trayRunPc = "none" /\ readyPc = "idle" /\ buildIdx = 0
  /\ amPc = [c \in Callers |-> "idle"]
  /\ amArg = [c \in Callers |-> ItemQuick]
  /\ adds = 0
  /\ submitOrder = <<>> /\ liveOrder = <<>>
  /\ notifications = <<>> /\ handlerCalls = <<>>
  /\ onReadyCalls = 0 /\ onExitCalls = 0 /\ drains = 0

\* New(config) (glide.go:373-385) for a config without or with a Tray
Init ==
  /\ webview = "live" /\ wvTerminated = FALSE /\ quit = "open"
  /\ tray \in {NoTray} \cup {<<cfg>> : cfg \in TrayConfigs}
  /\ wg = 0 /\ mainPc = "idle" /\ panicked = NoPanic /\ termCalls = 0
  /\ TrayManagerAfterNew
  /\ WindowAfterNew

Next ==
  \/ Terminate
  \/ Exit
  \/ Run
  \/ WebviewRunReturns
  \/ RunReturns
  \/ TrayRun
  \/ TrayRunReturns
  \/ \E c \in Submitters, item \in SubmittedItems : AddMenuItem(c, item)
  \/ \E c \in Callers : AddMenuItemLock(c)
  \/ \E c \in Callers : AddMenuItemBody(c)
  \/ OnReadyNotify
  \/ OnReadyLock
  \/ BuildMenu
  \/ OnReadyDrain
  \/ OnReadyCallback
  \/ OnReadyUnlock
  \/ OnExit
  \/ OnExitTerminate

Spec == Init /\ [][Next]_vars

\* The tray with its click listeners, without termination: clicks and
\* listeners touch nothing but the click channels and the handler calls.
ClickNext ==
  \/ Run
  \/ TrayRun
  \/ \E c \in Submitters, item \in SubmittedItems : AddMenuItem(c, item)
  \/ \E c \in Callers : AddMenuItemLock(c)
  \/ \E c \in Callers : AddMenuItemBody(c)
  \/ OnReadyNotify
  \/ OnReadyLock
  \/ BuildMenu
  \/ OnReadyDrain
  \/ OnReadyCallback
  \/ OnReadyUnlock
  \/ \E p \in Paths(nativeMenu) : NativeClick(p)
  \/ \E l \in listeners : ListenerReceive(l)

ClickSpec == Init /\ [][ClickNext]_vars

\* The steps the Go scheduler and the two libraries take on their own: a
\* runnable goroutine runs, and the tray library delivers its readiness
\* notification.  User calls, clicks and the tray's quit are not forced.
Fairness ==
  /\ WF_vars(WebviewRunReturns) /\ WF_vars(RunReturns)
  /\ WF_vars(TrayRun) /\ WF_vars(TrayRunReturns)
  /\ \A c \in Callers : WF_vars(AddMenuItemLock(c)) /\ WF_vars(AddMenuItemBody(c))
  /\ WF_vars(OnReadyNotify) /\ WF_vars(OnReadyLock) /\ WF_vars(BuildMenu)
  /\ WF_vars(OnReadyDrain) /\ WF_vars(OnReadyCallback) /\ WF_vars(OnReadyUnlock)
  /\ WF_vars(OnExitTerminate)

FairSpec == Spec /\ Fairness

\* the windows New may be given by the window manager: style and extended
\* style words with all, some or none of the decoration bits
InitWindows ==
  { [style |-> 282001408, exStyle |-> 256],
    [style |-> 281542656, exStyle |-> 262400],
    [style |-> 268435456, exStyle |-> 524288],
    [style |-> 382664704, exStyle |-> 0] }

\* an App made by New without a tray (glide.go:373-385), or the zero App
\* value, which has no rendering surface, no quit channel and no window
WinInit ==
  /\ tray = NoTray
  /\ wvTerminated = FALSE /\ wg = 0 /\ mainPc = "idle"
  /\ panicked = NoPanic /\ termCalls = 0
  /\ TrayManagerAfterNew
  /\ NothingDoneYet
  /\ \/ /\ webview = "live" /\ quit = "open"
        /\ \E w \in InitWindows : style = w.style /\ exStyle = w.exStyle
     \/ /\ webview = Nil /\ quit = Nil
        /\ style = 0 /\ exStyle = 0

\* Run starts the run-loop that executes dispatched tasks; termination only
\* stops that loop and is left to Spec.
WinNext ==
  \/ Run
  \/ \E a \in Alphas : SetTransparency(a)
  \/ SetBackgroundTransparent
  \/ \E xy \in Positions : SetPosition(xy[1], xy[2])
  \/ \E u \in Urls : Navigate(u)
  \/ RemoveBorders
  \/ RestoreBorders
  \/ Maximize
  \/ Minimize
  \/ Restore
  \/ ShowWindow
  \/ RunDispatched

WinSpec == WinInit /\ [][WinNext]_vars

\* ================================================================ claims
\* the items the manager was asked to realize, in the order the spec
\* promises: config items, then the items buffered before readiness, then
\* the items added in the Live state
Config == IF tray = NoTray THEN <<>> ELSE tray[1].MenuItems
Requested == Config \o submitOrder \o liveOrder

ItemShape(item) == <<item.Title, [j \in 1..Len(item.Items) |-> item.Items[j].Title]>>
NativeShape(m) == <<m.Title, [j \in 1..Len(m.Sub) |-> m.Sub[j].Title]>>
Shapes(items) == [i \in 1..Len(items) |-> ItemShape(items[i])]
NativeShapes(menu) == [i \in 1..Len(menu) |-> NativeShape(menu[i])]

Count(seq, x) == Cardinality({k \in 1..Len(seq) : seq[k] = x})
CallsOn(p) == Cardinality({k \in 1..Len(handlerCalls) : handlerCalls[k].ch = p})
\* the items realized so far: none before the readiness transition
Realized == IF initialized THEN Requested ELSE <<>>
OwnerOf(p) == IF Len(p) = 1 THEN Realized[p[1]] ELSE Realized[p[1]].Items[p[2]]

RECURSIVE ListenerTotal(_)
ListenerTotal(menu) ==
  IF menu = <<>> THEN 0 ELSE 1 + Len(Head(menu).Sub) + ListenerTotal(Tail(menu))

\* C1: Terminate called several times (directly, through Exit, or through
\* the tray's onExit after a user Terminate) never panics the process: the
\* quit channel is never closed a second time.
C1_QuitClosedAtMostOnce == panicked # CloseOfClosedQuit

\* C2: once the tray library has delivered its readiness notification, the
\* tray becomes ready with a realized top-level menu equal to the config's
\* MenuItems in order followed by the items submitted before readiness in
\* submission order, each realized once.  (A process ended by a panic is
\* C1's matter and is not counted against this claim.)
C2_RealizedOrder ==
  (readyPc = "lock") ~>
    (\/ ~Alive
     \/ /\ initialized
        /\ NativeShapes(nativeMenu) = Shapes(Requested)
        /\ Len(menuItems) = Len(Requested))

\* C3: once the readiness notification is delivered, the readiness signal
\* fires and trayManager.run, blocked on it, returns -- for every
\* TrayConfig, one with a non-empty MenuItems list included.
C3_RunUnblocked ==
  (readyPc = "lock") ~> (~Alive \/ (initializedCh = "closed" /\ trayRunPc = "done"))

\* C4: with a tray configured, whenever Run has returned the tray library's
\* event loop started by trayManager.run is no longer running.
C4_TrayFinishedWhenRunReturned ==
  (mainPc = "returned" /\ tray # NoTray) => trayLoop = "exited"

\* C8: realizing an item with N nested items starts N+1 listeners, one per
\* native item and each on its own ClickedCh; every click notification on a
\* native item leads to exactly one call of the handler of the item realized
\* there (none when that item has no handler) and to no call of any other
\* item's handler.
C8_Listeners ==
  /\ Cardinality(listeners) = ListenerTotal(nativeMenu)
  /\ {l.ch : l \in listeners} = Paths(nativeMenu)
  /\ Len(Realized) = Len(nativeMenu)
  /\ \A k \in 1..Len(handlerCalls) :
       /\ handlerCalls[k].ch \in Paths(nativeMenu)
       /\ handlerCalls[k].handler = OwnerOf(handlerCalls[k].ch).Handler
       /\ handlerCalls[k].handler = NativeAt(nativeMenu, handlerCalls[k].ch).Title
  /\ \A p \in Paths(nativeMenu) :
       IF OwnerOf(p).Handler = NoHandler
         THEN CallsOn(p) = 0
         ELSE CallsOn(p) + (IF p \in clickedCh THEN 1 ELSE 0) = Count(notifications, p)

\* two notifications handled, one on a top-level item and one on a nested item
C8_Witness ==
  /\ Len(handlerCalls) = 2
  /\ \E k \in 1..2 : Len(handlerCalls[k].ch) = 1
  /\ \E k \in 1..2 : Len(handlerCalls[k].ch) = 2

\* C9: the user's OnReady callback is the last thing the readiness
\* transition does: when it starts, every config item and every item
\* submitted before the transition is realized, the pending queue has been
\* drained once, in FIFO order, and is empty, and the readiness flag and
\* signal are set; after it only the deferred Unlock remains.
C9_OnReadyLast ==
  /\ readyPc = "callOnReady" =>
       /\ initialized /\ initializedCh = "closed"
       /\ pendingItems = <<>> /\ drains = 1 /\ liveOrder = <<>>
       /\ NativeShapes(nativeMenu) = Shapes(Config \o submitOrder)
       /\ onReadyCalls = 0
  /\ onReadyCalls > 0 =>
       (onReadyCalls = 1 /\ readyPc \in {"inCallback", "unlock", "done"})

\* the callback is about to start after two buffered items were drained
C9_Witness == readyPc = "callOnReady" /\ Len(submitOrder) = 2

\* C10: an AddMenuItem call that runs while the manager is Buffering
\* appends its item to the end of the pending queue, makes no native tray
\* call (native menu, live item list and listeners unchanged), releases the
\* lock and returns.
C10_BufferingAppends ==
  [][\A c \in Callers :
       (amPc[c] = "locked" /\ ~initialized /\ amPc'[c] # amPc[c]) =>
         /\ pendingItems' = Append(pendingItems, amArg[c])
         /\ UNCHANGED <<nativeMenu, menuItems, listeners, initialized>>
         /\ amPc'[c] = "idle" /\ itemMutex' = Free]_vars

\* two calls have buffered their items and returned; nothing is realized
C10_Witness ==
  /\ ~initialized /\ Len(pendingItems) = 2 /\ nativeMenu = <<>>
  /\ \A c \in Submitters : amPc[c] = "idle"

\* C5 (as stated): RemoveBorders followed by RestoreBorders leaves the
\* window style equal to the style S before RemoveBorders, for every S.
C5_RoundTripExact == rt = "restored" => style = rtBase

\* C5 (amended): RemoveBorders followed by RestoreBorders leaves the style
\* equal to S with all six decoration bits set; it equals S exactly when S
\* already had all of them.
C5_RoundTripAddsBorders ==
  /\ rt = "removed" => style = AndNot(rtBase, BorderMask)
  /\ rt = "restored" =>
       /\ style = BitOr(rtBase, BorderMask)
       /\ (style = rtBase) <=> (BitAnd(rtBase, BorderMask) = BorderMask)

\* the round trip was made from a style lacking some decoration bits
C5_Witness == rt = "restored" /\ BitAnd(rtBase, BorderMask) # BorderMask

AllWindowOps ==
  {"SetTransparency", "SetBackgroundTransparent", "SetPosition", "RemoveBorders",
   "RestoreBorders", "Maximize", "Minimize", "Restore", "ShowWindow", "Navigate"}

TransparencyPending ==
  \E k \in 1..Len(dispatchq) :
    dispatchq[k].op \in {"SetTransparency", "SetBackgroundTransparent"}

\* C6: after a sequence of SetTransparency calls whose dispatched tasks have
\* all run, the alpha is the alpha of the last call, WS_EX_LAYERED is set
\* and every other extended-style bit is as it was before the sequence.
C6_TransparencySequence ==
  (trRun > 0 /\ ~TransparencyPending) =>
    /\ alpha = trLast
    /\ BitAnd(exStyle, WS_EX_LAYERED) = WS_EX_LAYERED
    /\ AndNot(exStyle, WS_EX_LAYERED) = AndNot(trBase, WS_EX_LAYERED)

\* two or more SetTransparency tasks have run on a window that had other
\* extended-style bits and was not layered, the last one with alpha 0
C6_Witness ==
  /\ trRun = 2 /\ dispatchq = <<>> /\ trLast = 0
  /\ BitAnd(trBase, WS_EX_LAYERED) = 0 /\ trBase # 0

\* C7: with no rendering surface every window-manipulation call is a no-op:
\* no native call, no dispatched task, window and App state unchanged, and
\* no crash in the call.
C7_NoSurfaceNoop ==
  webview = Nil =>
    /\ style = 0 /\ exStyle = 0 /\ alpha = 255 /\ pos = <<0, 0>>
    /\ showCmd = SW_SHOW /\ navUrl = "" /\ dispatchq = <<>>
    /\ nativeThreads = {} /\ styleWriters = {}
    /\ quit = Nil /\ wvTerminated = FALSE /\ wg = 0
    /\ panicked # NilDerefWindow
    /\ noops \subseteq AllWindowOps

\* each of the ten calls has been made on an App without a surface
C7_Witness == webview = Nil /\ noops = AllWindowOps /\ Alive

\* C11: an AddMenuItem call that runs while the manager is Live realizes its
\* item at once: the item becomes the last entry of the realized menu, the
\* entries before it are untouched, and nothing goes to the pending queue.
C11_LiveRealizes ==
  [][\A c \in Callers :
       (amPc[c] = "locked" /\ initialized /\ amPc'[c] # amPc[c]) =>
         /\ Len(nativeMenu') = Len(nativeMenu) + 1
         /\ SubSeq(nativeMenu', 1, Len(nativeMenu)) = nativeMenu
         /\ NativeShape(nativeMenu'[Len(nativeMenu')]) = ItemShape(amArg[c])
         /\ menuItems' = Append(menuItems, <<Len(nativeMenu')>>)
         /\ pendingItems' = pendingItems /\ pendingItems = <<>>
         /\ amPc'[c] = "idle" /\ itemMutex' = Free]_vars

\* one item was buffered and drained, then a second call made in the Live
\* state was realized behind it
C11_Witness ==
  /\ initialized /\ Len(submitOrder) = 1 /\ Len(liveOrder) = 1
  /\ NativeShapes(nativeMenu) = Shapes(submitOrder \o liveOrder)
  /\ \A c \in Submitters : amPc[c] = "idle"

\* C12: the write of the window style bits made by RemoveBorders and
\* RestoreBorders is never made inline on the calling thread: every native
\* style write runs on the window-owning thread as a dispatched task.
C12_StyleWriteDispatched == "caller" \notin styleWriters

\* C13: the task of SetBackgroundTransparent leaves the extended style
\* equal to the extended style it found with WS_EX_LAYERED,
\* WS_EX_TRANSPARENT and WS_EX_COMPOSITED added, so that every bit set
\* before (WS_EX_APPWINDOW for one) is still set.
C13_BackgroundKeepsBits ==
  [][(/\ dispatchq # <<>>
      /\ Head(dispatchq).op = "SetBackgroundTransparent"
      /\ dispatchq' = Tail(dispatchq)) =>
        exStyle' = BitOr(exStyle, BitOr(WS_EX_LAYERED,
                                        BitOr(WS_EX_TRANSPARENT, WS_EX_COMPOSITED)))]_vars

\* C14: the readiness signal is closed at most once, and only by onReady,
\* in the same step that sets the readiness flag; no other operation (run,
\* AddMenuItem, buildMenu, onExit, Terminate) changes the flag or the
\* signal, and the signal is never closed twice.
C14_ReadinessOnlyInOnReady ==
  [][/\ (initialized' # initialized \/ initializedCh' # initializedCh) =>
          /\ readyPc = "drain" /\ readyPc' \in {"callOnReady", "unlock"}
          /\ ~initialized /\ initializedCh = "open"
          /\ initialized' /\ initializedCh' = "closed"
          /\ drains = 0 /\ drains' = 1
     /\ panicked' # CloseOfClosedInit]_vars

\* the signal is closed, and run, an AddMenuItem call, onExit and so
\* Terminate have all acted after it
C14_Witness ==
  /\ initializedCh = "closed" /\ initialized /\ readyPc = "done"
  /\ trayRunPc = "done" /\ Len(liveOrder) >= 1
  /\ trayLoop = "exited" /\ quit = "closed"

\* C15: the manager only moves from Buffering to Live: once the readiness
\* flag is true it stays true, and whenever it is true the pending queue
\* is empty.
C15_BufferingToLive ==
  [][/\ initialized => initialized'
     /\ initialized' => pendingItems' = <<>>]_vars

\* Live was entered with two buffered items to drain, and the manager has
\* stayed Live through the rest of onReady
C15_Witness ==
  /\ initialized /\ readyPc = "done" /\ Len(submitOrder) = 2
  /\ pendingItems = <<>> /\ Len(nativeMenu) = 2

\* the contexts inside a section of code guarded by itemMutex: onReady from
\* its Lock to its deferred Unlock, AddMenuItem from Lock to Unlock
InCritical(c) ==
  \/ amPc[c] = "locked"
  \/ /\ c = Systray
     /\ readyPc \in {"buildMenu", "inAddMenuItem", "drain", "callOnReady",
                     "inCallback", "unlock"}
Holders == {c \in Callers : InCritical(c)}

\* C16: at most one context is inside a section guarded by the lock, it is
\* the context recorded as the lock's holder, and every change of the
\* realized item list or of the pending queue is made by that context.
C16_MutationsUnderLock ==
  [][/\ Cardinality(Holders') <= 1
     /\ \A c \in Holders' : itemMutex' = c
     /\ (pendingItems' # pendingItems \/ menuItems' # menuItems
           \/ nativeMenu' # nativeMenu) =>
          \E c \in Holders :
            /\ itemMutex = c
            /\ \/ amPc[c] = "locked" /\ amPc'[c] = "idle"
               \/ c = Systray /\ readyPc = "drain" /\ readyPc' # "drain"]_vars

\* a submitter waits for the lock while onReady runs the callback under it,
\* after another submitter's item was buffered
C16_Witness ==
  /\ readyPc = "callOnReady" /\ itemMutex = Systray
  /\ \E c \in Submitters : amPc[c] = "lock"
  /\ Len(submitOrder) = 1

\* C17: onExit runs the user's OnExit callback (when there is one) before
\* it terminates the app; when onExit is over the quit signal is closed and
\* the rendering surface is terminated; and a Terminate (or Exit) call
\* never makes onExit run nor stops the tray loop.
C17_OnExitThenTerminate ==
  [][/\ (trayLoop = "running" /\ trayLoop' = "exiting") =>
          /\ onExitCalls' = (IF tray[1].OnExit THEN onExitCalls + 1 ELSE onExitCalls)
          /\ UNCHANGED <<quit, wvTerminated, panicked>>
     /\ (trayLoop # "exited" /\ trayLoop' = "exited") =>
          /\ trayLoop = "exiting"
          /\ onExitCalls' = onExitCalls
          /\ onExitCalls = (IF tray[1].OnExit THEN 1 ELSE 0)
          /\ quit' = "closed" /\ wvTerminated'
     /\ termCalls' # termCalls => UNCHANGED <<trayLoop, onExitCalls>>]_vars

\* onExit has run to its end with a user OnExit callback, and no user
\* Terminate was involved: the app was terminated by onExit
C17_Witness ==
  /\ trayLoop = "exited" /\ onExitCalls = 1 /\ termCalls = 0
  /\ quit = "closed" /\ wvTerminated /\ Alive

\* C18: when Terminate has been called while Run is executing, and the
\* tray library (if any) has delivered its readiness notification, Run
\* eventually returns -- with no tray, with a tray whose MenuItems is empty
\* and with a tray whose MenuItems is non-empty.  (A process ended by a
\* panic is C1's matter and is not counted against this claim.)
C18_RunReturnsAfterTerminate ==
  (/\ mainPc \in {"webviewRun", "wgWait"} /\ wvTerminated
   /\ (tray = NoTray \/ readyPc # "idle"))
    ~> (~Alive \/ mainPc = "returned")

\* C19: once the manager is Live no AddMenuItem call waits forever for the
\* lock: a call made from inside the OnReady callback, or concurrently
\* with it, gets the lock, realizes its item and returns.  (A process
\* ended by a panic is C1's matter and is not counted against this claim.)
C19_NoLockStarvation ==
  \A c \in Callers :
    (initialized /\ amPc[c] = "lock") ~>
      (~Alive \/ (amPc[c] = "idle" /\ Len(liveOrder) >= 1))

====
